---- MODULE Spec2Model ----
(***************************************************************************)
(* State-machine model of the api-server: the multipart ingestion pipeline *)
(* (process_file_stream, write_file, accept_file_stream), the metadata     *)
(* store behind Arc<Mutex<SqliteConnection>> (db.rs) and the filter        *)
(* handler (filter_files).  Every request is one task p; one action is the *)
(* code of a handler between two of its await points.                      *)
(***************************************************************************)
EXTENDS Integers, Sequences, FiniteSets, TLC

\* ------------------------------------------------------------------ bounds
\* scalar parts one request may carry before its "file" part
MaxScalars == 2
\* chunks one "file" part may deliver
MaxChunks == 2
\* latest wall-clock second the model lets the server clock reach
MaxClock == 2
\* rows of a store the filter engine is run against
MaxRows == 2
\* width, in bits, the model gives the signed file_upload_date column
DateBits == 4

\* ------------------------------------------------------------- data domains
\* the tasks of the server, one per request; the first two serve any route
Tasks == {1, 2, 3}
Procs == {1, 2}
\* the routes of main's Router
PostAudio == "POST /audio"
GetAudio == "GET /audio"
GetQuery == "GET /audio/query"
None == "none"
\* the mutex held by no task
Free == 0
\* next_field() has returned None, or an error
NoField == "<none>"
FieldErr == "<error>"
\* what fs holds for a path with no file: no byte is negative
NoFile == <<-1>>
\* req before validation
NoReq == [file_name |-> None, file_type |-> None]
\* the file names clients use, in the order of String's Ord
NameOrder == <<"a", "b">>
FileNames == {NameOrder[i] : i \in 1..Len(NameOrder)}
FileTypes == {"wav", "mp3"}
\* the k-th chunk the client of task p sends: k bytes that name p and k, so
\* that chunks differ in length, by position and by request
ChunkOf(p, k) == [i \in 1..k |-> 10 * p + k]
\* the scalar parts a client may send (name, utf-8 text)
ScalarParts ==
    {[name |-> "file_name", value |-> "a"],
     [name |-> "file_name", value |-> "b"],
     [name |-> "file_type", value |-> "wav"],
     [name |-> "file_upload_date", value |-> "7"]}

VARIABLES
    route,     \* route[p]: the route of task p's request, "" before it arrives
    pc,        \* pc[p]: where task p stands in its handler
    body,      \* body[p]: the parts of the request body received and not yet read; <<>>: the client sends each part as it is read
    field,     \* field[p]: what data.next_field() returned last: a part's name, NoField or FieldErr
    fields,    \* fields[p]: the BTreeMap<String, Value> of process_file_stream
    nread,     \* nread[p]: scalar parts task p has read
    req,       \* req[p]: the FileUploadRequest, or NoReq before validation
    chunks,    \* chunks[p]: chunks of the "file" part received so far
    pending,   \* pending[p]: the write task p's File has handed to the blocking pool
    werr,      \* werr[p]: that write came back with an error
    date,      \* date[p]: file_upload_date stamped for the row
    err,       \* err[p]: the error accept_file_stream logged (eprintln!), "" if none
    query,     \* query[p]: FileFilterAttributes of a filter request
    results,   \* results[p]: the Vec<BTreeSet<String>> of filter_files
    snap,      \* history: snap[p][i] is the number of rows the table held at the i-th find of task p
    resp,      \* resp[p]: the response body of a finished request
    fs,        \* fs[n]: bytes of audio/<n>, or NoFile
    rows,      \* the files table, in insertion order
    lock,      \* holder of the Mutex<SqliteConnection>, or Free
    now,       \* the server's wall clock, seconds since the epoch
    clobbered, \* history: tasks whose file another task wrote to after they created it
    touched,   \* history: touched[p] is the set of files task p created or truncated
    nrows,     \* history: nrows[p] counts the rows task p inserted
    sent       \* history: sent[p] is body[p] as it was when the request arrived

\* the locals of an upload task
up == <<body, field, fields, nread, req, chunks, werr, date, err>>
\* the locals of a filter task
flt == <<query, results, snap>>
\* the history variables
hist == <<clobbered, touched, nrows, sent>>

vars == <<route, pc, up, pending, flt, resp, fs, rows, lock, now, hist>>

\* ------------------------------------------------------------ pure helpers
RECURSIVE Concat(_)
\* the bytes of a sequence of chunks, in order
Concat(cs) == IF cs = <<>> THEN <<>> ELSE Head(cs) \o Concat(Tail(cs))

Max(a, b) == IF a >= b THEN a ELSE b

\* WriteAt as it would be were every write issued at position 0
WriteAtStart(content, off, bytes) ==
    [i \in 1..Max(Len(content), Len(bytes)) |->
        IF i <= Len(bytes) THEN bytes[i] ELSE content[i]]

\* pwrite of bytes at offset off; a gap past the end reads as zeros
WriteAt(content, off, bytes) ==
    [i \in 1..Max(Len(content), off + Len(bytes)) |->
        IF i > off /\ i <= off + Len(bytes) THEN bytes[i - off]
        ELSE IF i <= Len(content) THEN content[i]
        ELSE 0]

\* `secs as i32`: keep the low DateBits bits, read them as two's complement
AsI32(secs) ==
    LET m == secs % (2 ^ DateBits)
    IN  IF m >= 2 ^ (DateBits - 1) THEN m - 2 ^ DateBits ELSE m

\* Deserialize as it would be were file_name given a default (#[serde(default)])
DeserializeDefault(map) ==
    [file_name |-> IF "file_name" \in DOMAIN map THEN map["file_name"] ELSE "a",
     file_type |-> IF "file_type" \in DOMAIN map THEN map["file_type"] ELSE None]

\* serde_json::from_str::<FileUploadRequest>: file_name required, file_type
\* optional, any other key ignored
Deserialize(map) ==
    IF "file_name" \in DOMAIN map
    THEN [file_name |-> map["file_name"],
          file_type |-> IF "file_type" \in DOMAIN map THEN map["file_type"] ELSE None]
    ELSE NoReq

\* MapInsert as it would be were a key already present to keep its value
\* (entry(k).or_insert(v))
MapInsertKeep(map, k, v) ==
    [x \in DOMAIN map \cup {k} |-> IF x \in DOMAIN map THEN map[x] ELSE v]

\* BTreeMap::insert: the new value replaces an old one under the same key
MapInsert(map, k, v) == [x \in DOMAIN map \cup {k} |-> IF x = k THEN v ELSE map[x]]

EmptyMap == [x \in {} |-> None]

\* tasks other than p that have created file n and not failed since
Sharing(p, n) ==
    {q \in Tasks \ {p} : req[q].file_name = n
                         /\ pc[q] \in {"writing", "insert", "inserting", "done_ok"}}

\* ---------------------------------------------------------------- the mutex
\* Lock as it would be were the connection handed out without waiting
LockNoWait(p) == lock' = p

\* tokio::sync::Mutex::lock().await: resumes only once the mutex is free
Lock(p) == lock = Free /\ lock' = p

\* Unlock as it would be were the guard leaked (kept alive by the task)
UnlockLeak(p) == lock = p /\ lock' = p

\* the MutexGuard temporary is dropped at the end of the statement
Unlock(p) == lock = p /\ lock' = Free

\* ---------------------------------------------------------------- Init
Init ==
    /\ route = [p \in Tasks |-> ""]
    /\ pc = [p \in Tasks |-> "idle"]
    /\ body = [p \in Tasks |-> <<>>]
    /\ field = [p \in Tasks |-> ""]
    /\ fields = [p \in Tasks |-> EmptyMap]
    /\ nread = [p \in Tasks |-> 0]
    /\ req = [p \in Tasks |-> NoReq]
    /\ chunks = [p \in Tasks |-> <<>>]
    /\ pending = [p \in Tasks |-> <<>>]
    /\ werr = [p \in Tasks |-> FALSE]
    /\ date = [p \in Tasks |-> 0]
    /\ err = [p \in Tasks |-> ""]
    /\ query = [p \in Tasks |-> EmptyMap]
    /\ results = [p \in Tasks |-> <<>>]
    /\ snap = [p \in Tasks |-> <<>>]
    /\ resp = [p \in Tasks |-> <<>>]
    /\ fs = [n \in FileNames |-> NoFile]
    /\ rows = <<>>
    /\ lock = Free
    /\ now = 1
    /\ clobbered = {}
    /\ touched = [p \in Tasks |-> {}]
    /\ nrows = [p \in Tasks |-> 0]
    /\ sent = [p \in Tasks |-> <<>>]

\* ------------------------------------------------------- POST /audio
\* the part named "file", and the end of the multipart stream
FileP == [name |-> "file", value |-> ""]
EndP == [name |-> NoField, value |-> ""]

\* the next thing next_field() finds is `part`: the head of what was
\* received, or whatever the client sends now
Sends(p, part) == IF body[p] = <<>> THEN TRUE ELSE Head(body[p]) = part

\* what is left of the received parts once next_field() has taken one
Rest(b) == IF b = <<>> THEN b ELSE Tail(b)

\* eprintln!("{:?}", e)
Log(p, e) == err' = [err EXCEPT ![p] = e]

\* the handler returns Err(StatusCode::INTERNAL_SERVER_ERROR): the task's
\* request, payload and stamp are dropped; a write already handed to the
\* blocking pool is not
Abort(p) ==
    /\ pc' = [pc EXCEPT ![p] = "done_err"]
    /\ nread' = [nread EXCEPT ![p] = 0]
    /\ req' = [req EXCEPT ![p] = NoReq]
    /\ chunks' = [chunks EXCEPT ![p] = <<>>]
    /\ werr' = [werr EXCEPT ![p] = FALSE]
    /\ date' = [date EXCEPT ![p] = 0]

\* a POST /audio request reaches accept_file_stream
StartUpload(p) ==
    /\ pc[p] = "idle"
    /\ route' = [route EXCEPT ![p] = PostAudio]
    /\ pc' = [pc EXCEPT ![p] = "fields"]
    /\ UNCHANGED <<up, pending, flt, resp, fs, rows, lock, now, hist>>

\* the loop of process_file_stream reads one part that is not named "file"
ReadScalar(p, part) ==
    /\ pc[p] = "fields"
    /\ nread[p] < MaxScalars
    /\ part.name \notin {"file", NoField}
    /\ Sends(p, part)
    /\ body' = [body EXCEPT ![p] = Rest(@)]
    /\ field' = [field EXCEPT ![p] = part.name]
    /\ fields' = [fields EXCEPT ![p] = MapInsert(fields[p], part.name, part.value)]
    /\ nread' = [nread EXCEPT ![p] = nread[p] + 1]
    /\ UNCHANGED <<route, pc, req, chunks, werr, date, err, pending, flt, resp, fs, rows, lock,
                   now, hist>>

\* next_field() or bytes() fails, the part has no name, or it is not utf-8
FieldError(p) ==
    /\ pc[p] = "fields"
    /\ field' = [field EXCEPT ![p] = FieldErr]
    /\ Abort(p)
    /\ Log(p, "field")
    /\ UNCHANGED <<route, body, fields, pending, flt, resp, fs, rows, lock, now, hist>>

\* StreamEnd as it would be were the end of the stream to leave the loop
\* like the "file" part does
StreamEndBreaks(p) ==
    /\ pc[p] = "fields"
    /\ Sends(p, EndP)
    /\ body' = [body EXCEPT ![p] = Rest(@)]
    /\ field' = [field EXCEPT ![p] = NoField]
    /\ LET r == Deserialize(fields[p])
       IN  IF r = NoReq
           THEN Abort(p) /\ Log(p, "malformed")
           ELSE /\ pc' = [pc EXCEPT ![p] = "create"]
                /\ req' = [req EXCEPT ![p] = r]
                /\ nread' = [nread EXCEPT ![p] = 0]
                /\ UNCHANGED <<chunks, werr, date, err>>
    /\ UNCHANGED <<route, fields, pending, flt, resp, fs, rows, lock, now, hist>>

\* next_field() returns None: bail!("File upload ended early")
StreamEnd(p) ==
    /\ pc[p] = "fields"
    /\ Sends(p, EndP)
    /\ body' = [body EXCEPT ![p] = Rest(@)]
    /\ field' = [field EXCEPT ![p] = NoField]
    /\ Abort(p)
    /\ Log(p, "File upload ended early")
    /\ UNCHANGED <<route, fields, pending, flt, resp, fs, rows, lock, now, hist>>

\* FilePart as it would be were the part named "file" skipped and the loop
\* to go on reading parts
FilePartGoesOn(p) ==
    /\ pc[p] = "fields"
    /\ Sends(p, FileP)
    /\ body' = [body EXCEPT ![p] = Rest(@)]
    /\ field' = [field EXCEPT ![p] = "file"]
    /\ UNCHANGED <<route, pc, fields, nread, req, chunks, werr, date, err, pending, flt, resp,
                   fs, rows, lock, now, hist>>

\* the part named "file" arrives: break, then the map is serialized and
\* deserialized into FileUploadRequest
FilePart(p) ==
    /\ pc[p] = "fields"
    /\ Sends(p, FileP)
    /\ body' = [body EXCEPT ![p] = Rest(@)]
    /\ field' = [field EXCEPT ![p] = "file"]
    /\ LET r == Deserialize(fields[p])
       IN  IF r = NoReq
           THEN Abort(p) /\ Log(p, "malformed")
           ELSE /\ pc' = [pc EXCEPT ![p] = "create"]
                /\ req' = [req EXCEPT ![p] = r]
                /\ nread' = [nread EXCEPT ![p] = 0]
                /\ UNCHANGED <<chunks, werr, date, err>>
    /\ UNCHANGED <<route, fields, pending, flt, resp, fs, rows, lock, now, hist>>

\* CreateFile as it would be were the file opened only by its first write
CreateFileLazily(p) ==
    /\ pc[p] = "create"
    /\ pc' = [pc EXCEPT ![p] = "writing"]
    /\ UNCHANGED <<route, up, pending, flt, resp, fs, rows, lock, now, hist>>

\* CreateFile as it would be were the file opened without truncation
CreateFileKeep(p) ==
    /\ pc[p] = "create"
    /\ fs' = [fs EXCEPT ![req[p].file_name] = IF @ = NoFile THEN <<>> ELSE @]
    /\ pc' = [pc EXCEPT ![p] = "writing"]
    /\ clobbered' = clobbered \cup Sharing(p, req[p].file_name)
    /\ touched' = [touched EXCEPT ![p] = @ \cup {req[p].file_name}]
    /\ UNCHANGED <<route, up, pending, flt, resp, rows, lock, now, nrows, sent>>

\* write_file up to File::create: the file exists and is empty
CreateFile(p) ==
    /\ pc[p] = "create"
    /\ fs' = [fs EXCEPT ![req[p].file_name] = <<>>]
    /\ pc' = [pc EXCEPT ![p] = "writing"]
    /\ clobbered' = clobbered \cup Sharing(p, req[p].file_name)
    /\ touched' = [touched EXCEPT ![p] = @ \cup {req[p].file_name}]
    /\ UNCHANGED <<route, up, pending, flt, resp, rows, lock, now, nrows, sent>>

\* current_dir, create_dir_all or File::create fails
CreateFail(p) ==
    /\ pc[p] = "create"
    /\ Abort(p)
    /\ Log(p, "create")
    /\ UNCHANGED <<route, body, field, fields, pending, flt, resp, fs, rows, lock, now, hist>>

\* file_field.next() yields a chunk and write_all takes it: write_all first
\* waits for the write handed over before and returns its error, then hands
\* the new chunk to the blocking pool, at the file position, and returns Ok
WriteChunk(p, c) ==
    /\ pc[p] = "writing"
    /\ pending[p] = <<>>
    /\ Len(chunks[p]) < MaxChunks
    /\ IF werr[p]
       THEN /\ Abort(p)
            /\ Log(p, "write")
            /\ UNCHANGED pending
       ELSE /\ chunks' = [chunks EXCEPT ![p] = Append(chunks[p], c)]
            /\ pending' = [pending EXCEPT ![p] =
                             <<[file |-> req[p].file_name,
                                off |-> Len(Concat(chunks[p])), bytes |-> c]>>]
            /\ UNCHANGED <<pc, nread, req, werr, date, err>>
    /\ UNCHANGED <<route, body, field, fields, flt, resp, fs, rows, lock, now, hist>>

\* the blocking pool performs the write handed over: the bytes land at the
\* position of this task's own file description
BgWrite(p) ==
    /\ pending[p] # <<>>
    /\ LET w == pending[p][1]
       IN  /\ fs' = [fs EXCEPT ![w.file] = WriteAt(fs[w.file], w.off, w.bytes)]
           /\ clobbered' = clobbered \cup Sharing(p, w.file)
    /\ pending' = [pending EXCEPT ![p] = <<>>]
    /\ UNCHANGED <<route, pc, up, flt, resp, rows, lock, now, touched, nrows, sent>>

\* the write handed over fails in the blocking pool; the error waits in the
\* File for the next write_all
BgWriteFail(p) ==
    /\ pending[p] # <<>>
    /\ pending' = [pending EXCEPT ![p] = <<>>]
    /\ werr' = [werr EXCEPT ![p] = pc[p] \in {"writing", "insert", "inserting", "done_ok"}]
    /\ UNCHANGED <<route, pc, body, field, fields, nread, req, chunks, date, err, flt, resp,
                   fs, rows, lock, now, hist>>

\* file_field.next() yields an error (the client went away): `bytes?`
ChunkError(p) ==
    /\ pc[p] = "writing"
    /\ Abort(p)
    /\ Log(p, "chunk")
    /\ UNCHANGED <<route, body, field, fields, pending, flt, resp, fs, rows, lock, now, hist>>

\* file_field.next() yields None: write_file and process_file_stream return
\* Ok, accept_file_stream reads the clock and builds the db::File
StampRecord(p, t) ==
    /\ pc[p] = "writing"
    /\ t >= now
    /\ now' = t
    /\ date' = [date EXCEPT ![p] = AsI32(t)]
    /\ pc' = [pc EXCEPT ![p] = "insert"]
    /\ UNCHANGED <<route, body, field, fields, nread, req, chunks, werr, err, pending, flt,
                   resp, fs, rows, lock, hist>>

\* Record as it would be were a file_upload_date of the scalar map to win
\* over the stamp
RecordClientDate(p) ==
    [file_name |-> req[p].file_name, file_type |-> req[p].file_type,
     file_upload_date |-> IF "file_upload_date" \in DOMAIN fields[p] THEN 7 ELSE date[p]]

\* the db::File of task p
Record(p) ==
    [file_name |-> req[p].file_name, file_type |-> req[p].file_type,
     file_upload_date |-> date[p]]

\* insert_file: conn.lock().await
AcquireInsert(p) ==
    /\ pc[p] = "insert"
    /\ Lock(p)
    /\ pc' = [pc EXCEPT ![p] = "inserting"]
    /\ UNCHANGED <<route, up, pending, flt, resp, fs, rows, now, hist>>

\* InsertInto as it would be were file_name unique and a second row ignored
InsertUnique(table, file) ==
    IF \E i \in 1..Len(table) : table[i].file_name = file.file_name
    THEN table ELSE Append(table, file)

\* file.insert_into(files::table).execute: one more row, whatever the table holds
InsertInto(table, file) == Append(table, file)

\* insert_file: the INSERT runs, the guard is dropped, the handler answers 200
ExecInsert(p) ==
    /\ pc[p] = "inserting"
    /\ rows' = InsertInto(rows, Record(p))
    /\ Unlock(p)
    /\ pc' = [pc EXCEPT ![p] = "done_ok"]
    /\ resp' = [resp EXCEPT ![p] = <<Record(p)>>]
    /\ nrows' = [nrows EXCEPT ![p] = @ + 1]
    /\ UNCHANGED <<route, up, pending, flt, fs, now, clobbered, touched, sent>>

\* InsertFail as it would be were the file written removed again (rollback)
InsertFailRollback(p) ==
    /\ pc[p] = "inserting"
    /\ Unlock(p)
    /\ Abort(p)
    /\ Log(p, "insert")
    /\ fs' = [fs EXCEPT ![req[p].file_name] = NoFile]
    /\ UNCHANGED <<route, body, field, fields, pending, flt, resp, rows, now, hist>>

\* insert_file: the INSERT fails, the guard is dropped, the handler answers 500
InsertFail(p) ==
    /\ pc[p] = "inserting"
    /\ Unlock(p)
    /\ Abort(p)
    /\ Log(p, "insert")
    /\ UNCHANGED <<route, body, field, fields, pending, flt, resp, fs, rows, now, hist>>

\* ------------------------------------------------------- GET /audio
\* a GET /audio request reaches list_files
StartList(p) ==
    /\ pc[p] = "idle"
    /\ route' = [route EXCEPT ![p] = GetAudio]
    /\ pc' = [pc EXCEPT ![p] = "list"]
    /\ UNCHANGED <<up, pending, flt, resp, fs, rows, lock, now, hist>>

\* list_file_names: conn.lock().await
AcquireList(p) ==
    /\ pc[p] = "list"
    /\ Lock(p)
    /\ pc' = [pc EXCEPT ![p] = "listing"]
    /\ UNCHANGED <<route, up, pending, flt, resp, fs, rows, now, hist>>

\* files.select(file_name).load: one name per row
SelectNames(table) == [i \in 1..Len(table) |-> table[i].file_name]

\* list_file_names: the SELECT runs, the guard is dropped, list_files
\* answers the names as JSON
ExecList(p) ==
    /\ pc[p] = "listing"
    /\ resp' = [resp EXCEPT ![p] = SelectNames(rows)]
    /\ Unlock(p)
    /\ pc' = [pc EXCEPT ![p] = "done_ok"]
    /\ UNCHANGED <<route, up, pending, flt, fs, rows, now, hist>>

\* list_file_names: the SELECT fails, the guard is dropped, 500
ListFail(p) ==
    /\ pc[p] = "listing"
    /\ Unlock(p)
    /\ pc' = [pc EXCEPT ![p] = "done_err"]
    /\ UNCHANGED <<route, up, pending, flt, resp, fs, rows, now, hist>>

List(p) ==
    \/ StartList(p)
    \/ AcquireList(p)
    \/ ExecList(p)
    \/ ListFail(p)

\* ------------------------------------------------------- GET /audio/query
\* the attributes of FileFilterAttributes, in the order filter_files asks them
Attributes == <<"file_name", "file_type", "file_upload_date">>

\* the attributes query q supplies, in that order
Supplied(q) == SelectSeq(Attributes, LAMBDA k : k \in DOMAIN q)

\* FindBy as it would be were a NULL file_type to match every target
FindByNullAny(table, k, target) ==
    SelectSeq(table, LAMBDA r : IF k = "file_type"
                                THEN r.file_type = None \/ r.file_type = target
                                ELSE r[k] = target)

\* files.filter(<attribute>.eq(target)).load: the rows whose column equals the
\* target; a NULL file_type equals nothing
FindBy(table, k, target) ==
    SelectSeq(table, LAMBDA r : IF k = "file_type"
                                THEN r.file_type # None /\ r.file_type = target
                                ELSE r[k] = target)

\* files.into_iter().map(|file| file.file_name).collect::<BTreeSet<_>>()
NameSet(found) == {found[i].file_name : i \in 1..Len(found)}

RECURSIVE ReduceUnion(_)
\* Reduce as it would be were the sets united (predicates combined by OR)
ReduceUnion(rs) ==
    IF Len(rs) <= 1 THEN rs
    ELSE LET set_a == rs[Len(rs)]
             set_b == rs[Len(rs) - 1]
         IN  ReduceUnion(Append(SubSeq(rs, 1, Len(rs) - 2), set_a \cup set_b))

RECURSIVE Reduce(_)
\* while results.len() > 1: pop set_a, pop set_b, push their intersection
Reduce(rs) ==
    IF Len(rs) <= 1 THEN rs
    ELSE LET set_a == rs[Len(rs)]
             set_b == rs[Len(rs) - 1]
         IN  Reduce(Append(SubSeq(rs, 1, Len(rs) - 2), set_a \cap set_b))

\* BTreeSet::into_iter().collect::<Vec<_>>(): the elements in ascending order
IntoVec(set) == SelectSeq(NameOrder, LAMBDA n : n \in set)

\* Respond as it would be were a query without predicates to match every file
RespondAll(rs) ==
    LET left == Reduce(rs)
    IN  IF Len(left) = 1 THEN IntoVec(left[1]) ELSE IntoVec(NameSet(rows))

\* lines 167-176: the loop, then the one set left as a Vec, or vec![]
Respond(rs) ==
    LET left == Reduce(rs)
    IN  IF Len(left) = 1 THEN IntoVec(left[1]) ELSE <<>>

\* a GET /audio/query request reaches filter_files with attributes q; with
\* no attribute supplied the handler answers without awaiting anything
StartFilter(p, q) ==
    /\ pc[p] = "idle"
    /\ route' = [route EXCEPT ![p] = GetQuery]
    /\ query' = [query EXCEPT ![p] = q]
    /\ IF Supplied(q) = <<>>
       THEN /\ pc' = [pc EXCEPT ![p] = "done_ok"]
            /\ resp' = [resp EXCEPT ![p] = Respond(results[p])]
       ELSE /\ pc' = [pc EXCEPT ![p] = "find"]
            /\ resp' = resp
    /\ UNCHANGED <<up, pending, results, snap, fs, rows, lock, now, hist>>

\* find_file_by_*: conn.lock().await
AcquireFind(p) ==
    /\ pc[p] = "find"
    /\ Lock(p)
    /\ pc' = [pc EXCEPT ![p] = "finding"]
    /\ UNCHANGED <<route, up, pending, flt, resp, fs, rows, now, hist>>

\* find_file_by_* for the next supplied attribute: the SELECT runs, the guard
\* is dropped, the names found are pushed; after the last supplied attribute
\* the handler intersects and answers
ExecFind(p) ==
    /\ pc[p] = "finding"
    /\ LET k == Supplied(query[p])[Len(results[p]) + 1]
           pushed == Append(results[p], NameSet(FindBy(rows, k, query[p][k])))
       IN  IF Len(pushed) = Len(Supplied(query[p]))
           THEN /\ resp' = [resp EXCEPT ![p] = Respond(pushed)]
                /\ results' = [results EXCEPT ![p] = <<>>]
                /\ pc' = [pc EXCEPT ![p] = "done_ok"]
           ELSE /\ results' = [results EXCEPT ![p] = pushed]
                /\ pc' = [pc EXCEPT ![p] = "find"]
                /\ resp' = resp
    /\ snap' = [snap EXCEPT ![p] = Append(@, Len(rows))]
    /\ Unlock(p)
    /\ UNCHANGED <<route, up, pending, query, fs, rows, now, hist>>

\* find_file_by_*: the SELECT fails, the guard is dropped, 500
FindFail(p) ==
    /\ pc[p] = "finding"
    /\ Unlock(p)
    /\ pc' = [pc EXCEPT ![p] = "done_err"]
    /\ results' = [results EXCEPT ![p] = <<>>]
    /\ snap' = [snap EXCEPT ![p] = <<>>]
    /\ UNCHANGED <<route, up, pending, query, resp, fs, rows, now, hist>>

\* every FileFilterAttributes over the model's names, types and dates
Queries ==
    LET Opt(k, vals) == {EmptyMap} \cup {[x \in {k} |-> v] : v \in vals}
    IN  {n @@ t @@ d : n \in Opt("file_name", FileNames),
                       t \in Opt("file_type", FileTypes),
                       d \in Opt("file_upload_date", 1..MaxClock)}

\* the queries a filter request makes while uploads are running
ConcQueries ==
    {q \in Queries :
        /\ "file_name" \in DOMAIN q => q["file_name"] = "a"
        /\ "file_type" \in DOMAIN q => q["file_type"] = "wav"
        /\ "file_upload_date" \in DOMAIN q => q["file_upload_date"] = 1}

Filter(p, qs) ==
    \/ \E q \in qs : StartFilter(p, q)
    \/ AcquireFind(p)
    \/ ExecFind(p)
    \/ FindFail(p)


\* the steps of a POST /audio task whose client sends scalar parts out of
\* `parts` and whose clock reads come out of `times`
Progress(p, parts, times) ==
    \/ StartUpload(p)
    \/ \E part \in parts : ReadScalar(p, part)
    \/ StreamEnd(p)
    \/ FilePart(p)
    \/ CreateFile(p)
    \/ \E c \in {ChunkOf(p, Len(chunks[p]) + 1)} : WriteChunk(p, c)
    \/ BgWrite(p)
    \/ \E t \in times : StampRecord(p, t)
    \/ AcquireInsert(p)
    \/ ExecInsert(p)

\* the steps in which an I/O or store operation of a POST /audio task fails
Failure(p) ==
    \/ FieldError(p)
    \/ CreateFail(p)
    \/ BgWriteFail(p)
    \/ ChunkError(p)
    \/ InsertFail(p)

Upload(p, parts, times) == Progress(p, parts, times) \/ Failure(p)

Next ==
    \E p \in Procs :
        \/ Upload(p, ScalarParts, 1..MaxClock)
        \/ List(p)
        \/ Filter(p, ConcQueries)

Spec == Init /\ [][Next]_vars

\* ------------------------------------- uploads and a client that lists them
Readers == Tasks \ Procs
\* the scalar parts of clients that send a file_name and nothing else
NameParts == {part \in ScalarParts : part.name = "file_name"}

NextList ==
    \/ \E p \in Procs : Upload(p, NameParts, {1})
    \/ \E p \in Readers : List(p)

SpecList == Init /\ [][NextList]_vars

\* ------------------------------------------- uploads that meet no I/O error
NextIngest == \E p \in Procs : Progress(p, NameParts, 1..MaxClock)

\* the runtime polls every task that can make progress (a task waiting for
\* the mutex is woken when it is released), the clients keep sending, and
\* the blocking pool performs every write handed to it
FairIngest ==
    \A p \in Procs :
        /\ WF_vars(Progress(p, NameParts, 1..MaxClock))
        /\ WF_vars(BgWrite(p))

SpecIngest == Init /\ [][NextIngest]_vars /\ FairIngest

\* ------------------------------------- one upload under a late wall clock
\* seconds since the epoch the wall clock may show: the first second, the
\* last one the signed column can hold, the one after it, and the last one
\* of the unsigned range of the same width
ClockValues == {1, 2 ^ (DateBits - 1) - 1, 2 ^ (DateBits - 1), 2 ^ DateBits - 1}

NextClock == \E p \in {1} : Upload(p, NameParts, ClockValues)

SpecClock == Init /\ [][NextClock]_vars

\* ------------------------------------------- uploads one after the other
\* no request but that of task p is under way, and no write is outstanding
Quiet(p) ==
    \A q \in Tasks \ {p} : pc[q] \in {"idle", "done_ok", "done_err"} /\ pending[q] = <<>>

\* a client that sends its next request only when the last one is through
NextSeq == \E p \in Procs : Quiet(p) /\ Upload(p, NameParts, 1..MaxClock)

SpecSeq == Init /\ [][NextSeq]_vars

\* ----------------------------------- one upload whose body has been received
\* the scalar parts of a body: those of ScalarParts and a second file_type
StreamParts == ScalarParts \cup {[name |-> "file_type", value |-> "mp3"]}

\* the bodies a client sends: up to MaxScalars + 2 parts, each a scalar part
\* or a part named "file", then the end of the stream
Bodies ==
    {Append(b, EndP) :
        b \in UNION {[1..n -> StreamParts \cup {FileP}] : n \in 0..(MaxScalars + 2)}}

\* a server that has received the whole body of the request of task 1
InitStream ==
    /\ route = [p \in Tasks |-> ""]
    /\ pc = [p \in Tasks |-> "idle"]
    /\ \E b \in Bodies : body = [p \in Tasks |-> IF p = 1 THEN b ELSE <<>>]
    /\ field = [p \in Tasks |-> ""]
    /\ fields = [p \in Tasks |-> EmptyMap]
    /\ nread = [p \in Tasks |-> 0]
    /\ req = [p \in Tasks |-> NoReq]
    /\ chunks = [p \in Tasks |-> <<>>]
    /\ pending = [p \in Tasks |-> <<>>]
    /\ werr = [p \in Tasks |-> FALSE]
    /\ date = [p \in Tasks |-> 0]
    /\ err = [p \in Tasks |-> ""]
    /\ query = [p \in Tasks |-> EmptyMap]
    /\ results = [p \in Tasks |-> <<>>]
    /\ snap = [p \in Tasks |-> <<>>]
    /\ resp = [p \in Tasks |-> <<>>]
    /\ fs = [n \in FileNames |-> NoFile]
    /\ rows = <<>>
    /\ lock = Free
    /\ now = 1
    /\ clobbered = {}
    /\ touched = [p \in Tasks |-> {}]
    /\ nrows = [p \in Tasks |-> 0]
    /\ sent = body

NextStream == \E p \in {1} : Upload(p, StreamParts, {1})

SpecStream == InitStream /\ [][NextStream]_vars

\* ------------------------------------------------- the filter engine alone
\* the rows a files table can hold
Records ==
    [file_name : FileNames, file_type : FileTypes \cup {None},
     file_upload_date : 1..MaxClock]

\* the tables of at most MaxRows rows
Tables == UNION {[1..n -> Records] : n \in 0..MaxRows}

\* a server started on a table left by earlier uploads, each row's file on disk
InitFilter ==
    /\ route = [p \in Tasks |-> ""]
    /\ pc = [p \in Tasks |-> "idle"]
    /\ body = [p \in Tasks |-> <<>>]
    /\ field = [p \in Tasks |-> ""]
    /\ fields = [p \in Tasks |-> EmptyMap]
    /\ nread = [p \in Tasks |-> 0]
    /\ req = [p \in Tasks |-> NoReq]
    /\ chunks = [p \in Tasks |-> <<>>]
    /\ pending = [p \in Tasks |-> <<>>]
    /\ werr = [p \in Tasks |-> FALSE]
    /\ date = [p \in Tasks |-> 0]
    /\ err = [p \in Tasks |-> ""]
    /\ query = [p \in Tasks |-> EmptyMap]
    /\ results = [p \in Tasks |-> <<>>]
    /\ snap = [p \in Tasks |-> <<>>]
    /\ resp = [p \in Tasks |-> <<>>]
    /\ rows \in Tables
    /\ fs = [n \in FileNames |-> IF n \in NameSet(rows) THEN <<>> ELSE NoFile]
    /\ lock = Free
    /\ now = MaxClock
    /\ clobbered = {}
    /\ touched = [p \in Tasks |-> {}]
    /\ nrows = [p \in Tasks |-> 0]
    /\ sent = [p \in Tasks |-> <<>>]

NextFilter == \E p \in {1} : Filter(p, Queries)

SpecFilter == InitFilter /\ [][NextFilter]_vars

\* ------------------------------------ a filter request racing with uploads
\* the scalar parts of the racing uploads
RaceParts == {part \in ScalarParts : part.name \in {"file_name", "file_type"}}

\* the queries of two or three predicates on the name a, the type wav and
\* the date of the racing uploads
RaceQueries ==
    {q \in Queries :
        /\ Cardinality(DOMAIN q) >= 2
        /\ "file_name" \in DOMAIN q => q["file_name"] = "a"
        /\ "file_type" \in DOMAIN q => q["file_type"] = "wav"
        /\ "file_upload_date" \in DOMAIN q => q["file_upload_date"] = MaxClock}

\* a server started on an empty table, or on the row and file an upload of
\* a wav file a left at second 1
InitRace ==
    /\ route = [p \in Tasks |-> ""]
    /\ pc = [p \in Tasks |-> "idle"]
    /\ body = [p \in Tasks |-> <<>>]
    /\ field = [p \in Tasks |-> ""]
    /\ fields = [p \in Tasks |-> EmptyMap]
    /\ nread = [p \in Tasks |-> 0]
    /\ req = [p \in Tasks |-> NoReq]
    /\ chunks = [p \in Tasks |-> <<>>]
    /\ pending = [p \in Tasks |-> <<>>]
    /\ werr = [p \in Tasks |-> FALSE]
    /\ date = [p \in Tasks |-> 0]
    /\ err = [p \in Tasks |-> ""]
    /\ query = [p \in Tasks |-> EmptyMap]
    /\ results = [p \in Tasks |-> <<>>]
    /\ snap = [p \in Tasks |-> <<>>]
    /\ resp = [p \in Tasks |-> <<>>]
    /\ rows \in {<<>>, <<[file_name |-> "a", file_type |-> "wav", file_upload_date |-> 1]>>}
    /\ fs = [n \in FileNames |-> IF n \in NameSet(rows) THEN <<>> ELSE NoFile]
    /\ lock = Free
    /\ now = MaxClock
    /\ clobbered = {}
    /\ touched = [p \in Tasks |-> {}]
    /\ nrows = [p \in Tasks |-> 0]
    /\ sent = [p \in Tasks |-> <<>>]

NextRace ==
    \/ \E p \in Procs : Progress(p, RaceParts, {MaxClock})
    \/ \E p \in Readers : Filter(p, RaceQueries)

SpecRace == InitRace /\ [][NextRace]_vars

\* ================================================================ claims
Range(seq) == {seq[i] : i \in 1..Len(seq)}

\* the POST /audio tasks answered 200
Uploaded == {p \in Tasks : route[p] = PostAudio /\ pc[p] = "done_ok"}

\* task p was answered 200, every write it handed over has landed without an
\* error, and no other task wrote to its file since p created it
Settled(p) ==
    /\ p \in Uploaded
    /\ pending[p] = <<>>
    /\ ~werr[p]
    /\ p \notin clobbered

\* the row the scalar parts of task p ask for, stamped with date[p]
RowOf(p) ==
    [file_name |-> fields[p]["file_name"],
     file_type |-> IF "file_type" \in DOMAIN fields[p] THEN fields[p]["file_type"] ELSE None,
     file_upload_date |-> date[p]]

\* C1: a valid upload whose steps all succeed leaves audio/<file_name> holding
\* the chunks of its payload concatenated in arrival order, has created no
\* other file, and has added exactly one row, which carries the file_name and
\* file_type of its scalar parts and a date read from the server clock; the
\* table holds one row per upload answered 200.
C1_IngestOneFileOneRow ==
    /\ \A p \in Tasks :
          Settled(p) => /\ fs[fields[p]["file_name"]] = Concat(chunks[p])
                        /\ touched[p] = {fields[p]["file_name"]}
    /\ \A p \in Uploaded :
          /\ nrows[p] = 1
          /\ RowOf(p) \in Range(rows)
          /\ resp[p] = <<RowOf(p)>>
          /\ \E t \in 1..now : date[p] = t
    /\ Len(rows) = Cardinality(Uploaded)

\* C1 witness: two uploads answered 200, one of them of two chunks with a
\* file_type, settled
C1_Witness ==
    \E p \in Tasks :
        /\ Settled(p)
        /\ Len(chunks[p]) >= 2
        /\ "file_type" \in DOMAIN fields[p]
        /\ Cardinality(Uploaded) = 2

\* C2: a request whose stream ended before a "file" part (next_field()
\* returned None) has failed, has created or truncated no file and has
\* inserted no row, whatever its scalar map holds.
C2_EndedEarlyNoEffect ==
    \A p \in Tasks :
        field[p] = NoField =>
            /\ pc[p] = "done_err"
            /\ touched[p] = {}
            /\ nrows[p] = 0
            /\ resp[p] = <<>>

\* C2 witness: a stream that ended after a file_name part, while another
\* request has put a file and a row in place
C2_Witness ==
    \E p \in Tasks :
        /\ field[p] = NoField
        /\ "file_name" \in DOMAIN fields[p]
        /\ fs[fields[p]["file_name"]] # NoFile
        /\ Len(rows) = 1

\* C3: a request whose "file" part arrived over a scalar map without
\* file_name has failed without creating or truncating a file and without
\* inserting a row; a task that has created a file has a file_name in its
\* map, and created that file only.
C3_NoNameNoWrite ==
    \A p \in Tasks :
        /\ (field[p] = "file" /\ "file_name" \notin DOMAIN fields[p]) =>
               /\ pc[p] = "done_err"
               /\ touched[p] = {}
               /\ nrows[p] = 0
        /\ touched[p] # {} =>
               /\ "file_name" \in DOMAIN fields[p]
               /\ touched[p] = {fields[p]["file_name"]}

\* C3 witness: a "file" part after scalar parts none of which is file_name
C3_Witness ==
    \E p \in Tasks :
        /\ field[p] = "file"
        /\ "file_name" \notin DOMAIN fields[p]
        /\ Cardinality(DOMAIN fields[p]) = 2
        /\ pc[p] = "done_err"

\* the tasks executing a store operation
InStore == {p \in Tasks : pc[p] \in {"inserting", "listing", "finding"}}

\* C9: at most one store operation is executing; the task executing it holds
\* the lock, and no other task, finished or failed, holds it.
C9_StoreSerialized ==
    /\ Cardinality(InStore) <= 1
    /\ \A p \in Tasks : (lock = p) <=> (p \in InStore)
    /\ (lock = Free) <=> (InStore = {})

\* C9 witness: an insert is executing while another task waits for the lock
C9_Witness ==
    \E p, q \in Tasks :
        /\ pc[p] = "inserting"
        /\ pc[q] \in {"insert", "list", "find"}

\* C10: the file named by every row exists, and a task that has inserted a
\* row had created the file of that row before.
C10_RowHasFile ==
    /\ \A i \in 1..Len(rows) : fs[rows[i].file_name] # NoFile
    /\ \A p \in Tasks : nrows[p] > 0 => req[p].file_name \in touched[p]

\* C10 witness: a row with its file, beside a file that has no row
C10_Witness ==
    /\ Len(rows) >= 1
    /\ \E n \in FileNames : fs[n] # NoFile /\ n \notin Range(SelectNames(rows))

\* the filter requests answered 200
Filtered == {p \in Tasks : route[p] = GetQuery /\ pc[p] = "done_ok"}

\* row r satisfies the predicate query q puts on attribute k
Satisfies(r, q, k) ==
    CASE k = "file_name" -> r.file_name = q["file_name"]
      [] k = "file_type" -> r.file_type # None /\ r.file_type = q["file_type"]
      [] k = "file_upload_date" -> r.file_upload_date = q["file_upload_date"]

\* the names of the rows that satisfy every predicate of q
MatchingAll(q) ==
    {rows[i].file_name : i \in {j \in 1..Len(rows) : \A k \in DOMAIN q : Satisfies(rows[j], q, k)}}

\* the distinct names of the rows that satisfy the predicate of q on k
MatchingOne(q, k) ==
    {rows[i].file_name : i \in {j \in 1..Len(rows) : Satisfies(rows[j], q, k)}}

\* C4 (as claimed): a query of two or three predicates returns a name if and
\* only if one stored row of that name satisfies every predicate.
C4_ConjunctionPerRecord ==
    \A p \in Filtered :
        Cardinality(DOMAIN query[p]) >= 2 => Range(resp[p]) = MatchingAll(query[p])

\* C5: a query of at least one predicate returns, without duplicates, exactly
\* the names that lie in the set of every supplied predicate: the
\* intersection of the per-predicate sets, in whatever order pairs are taken;
\* the sets pushed so far are those of the supplied predicates in the order
\* name, type, date.
C5_IntersectionOfNameSets ==
    /\ \A p \in Tasks : \A i \in 1..Len(results[p]) :
          results[p][i] = MatchingOne(query[p], Supplied(query[p])[i])
    /\ \A p \in Filtered :
        DOMAIN query[p] # {} =>
            /\ Range(resp[p]) =
                  {n \in FileNames : \A k \in DOMAIN query[p] : n \in MatchingOne(query[p], k)}
            /\ \A i, j \in 1..Len(resp[p]) : i # j => resp[p][i] # resp[p][j]

\* C5 witness: a query of three predicates answered with a name, over a
\* table that holds a name twice
C5_Witness ==
    \E p \in Filtered :
        /\ Cardinality(DOMAIN query[p]) = 3
        /\ resp[p] # <<>>
        /\ Len(rows) = 2
        /\ rows[1].file_name = rows[2].file_name
        /\ rows[1] # rows[2]

\* C6: a query without predicates is answered with the empty list whatever
\* the table holds, and its task never waits for or holds the connection.
C6_NoPredicateNoResult ==
    \A p \in Tasks :
        (route[p] = GetQuery /\ DOMAIN query[p] = {}) =>
            /\ pc[p] = "done_ok"
            /\ resp[p] = <<>>
            /\ lock # p

\* C6 witness: a query without predicates answered over a table of two rows
C6_Witness ==
    \E p \in Filtered : DOMAIN query[p] = {} /\ Len(rows) >= 2

\* how often name n occurs in a list of names
Count(names, n) == Cardinality({i \in 1..Len(names) : names[i] = n})

\* the uploads of name n answered 200
UploadedAs(n) == {q \in Uploaded : req[q].file_name = n}

\* C7: the table holds each name once per upload of that name answered 200,
\* and a list request answers each name as often as uploads of that name had
\* been answered 200 when its SELECT ran: two uploads of one name give it twice.
C7_ListCountsIngestions ==
    /\ [](\A n \in FileNames :
            Count(SelectNames(rows), n) = Cardinality(UploadedAs(n)))
    /\ [][\A p \in Tasks :
            (pc[p] = "listing" /\ pc'[p] = "done_ok") =>
                \A n \in FileNames : Count(resp'[p], n) = Cardinality(UploadedAs(n))]_vars

\* C7 witness: a list answered with one name twice
C7_Witness ==
    \E p \in Tasks :
        /\ route[p] = GetAudio
        /\ resp[p] = <<"a", "a">>

\* C8: when no I/O or store operation fails, every upload that passed
\* validation is answered 200 with all its writes landed, and every task
\* finishes; while the validated uploads have pairwise different names, each
\* upload answered 200 has its file, which holds its payload once its writes
\* have landed, and its row, and the table has one row per such upload.
C8_ConcurrentUploadsAllComplete ==
    /\ \A p \in Procs :
          (pc[p] = "create") ~> (pc[p] = "done_ok" /\ pending[p] = <<>>)
    /\ <>[](\A p \in Procs : pc[p] \in {"done_ok", "done_err"})
    /\ []((\A p, q \in Tasks : (p # q /\ req[p] # NoReq) => req[p].file_name # req[q].file_name) =>
            /\ \A p \in Uploaded :
                  /\ fs[req[p].file_name] # NoFile
                  /\ pending[p] = <<>> => fs[req[p].file_name] = Concat(chunks[p])
                  /\ RowOf(p) \in Range(rows)
            /\ Len(rows) = Cardinality(Uploaded))

\* C8 witness: two uploads of different names, each of two chunks, both
\* answered 200 with their writes landed
C8_Witness ==
    \E p, q \in Uploaded :
        /\ req[p].file_name # req[q].file_name
        /\ Len(chunks[p]) >= 2 /\ Len(chunks[q]) >= 2
        /\ pending[p] = <<>> /\ pending[q] = <<>>

\* C11 (as claimed): a request that met a failure while reading a chunk of
\* the "file" part, or one of whose chunk writes failed, has failed and has
\* inserted no row, however many chunks it had written.
C11_StreamFailureNoRow ==
    \A p \in Tasks :
        (werr[p] \/ err[p] \in {"chunk", "write"}) =>
            /\ nrows[p] = 0
            /\ pc[p] \notin {"insert", "inserting", "done_ok"}

\* C12: the step in which the INSERT of a request fails adds no row, leaves
\* every file as it is (the request's file exists, and holds its payload when
\* its writes have landed and no other request wrote to it), frees the
\* connection and fails the request; a failed request takes no further step
\* of its handler (no retry), has no row, and the file it created stays.
C12_InsertFailureLeavesOrphan ==
    /\ [][\A p \in Tasks :
            (pc[p] = "inserting" /\ pc'[p] = "done_err") =>
                /\ rows' = rows
                /\ fs' = fs
                /\ fs[req[p].file_name] # NoFile
                /\ (pending[p] = <<>> /\ ~werr[p] /\ p \notin clobbered) =>
                       fs'[req[p].file_name] = Concat(chunks[p])
                /\ lock' = Free
                /\ err'[p] = "insert"
                /\ resp'[p] = <<>>]_vars
    /\ [][\A p \in Tasks : pc[p] = "done_err" => pc'[p] = "done_err" /\ err'[p] = err[p]]_vars
    /\ [](\A p \in Tasks :
            err[p] = "insert" =>
                /\ nrows[p] = 0
                /\ \E n \in FileNames : touched[p] = {n} /\ fs[n] # NoFile)

\* C12 witness: a request failed at its INSERT after writing two chunks: its
\* file holds the three bytes of its payload and the table is empty
C12_Witness ==
    \E p \in Tasks : \E n \in FileNames :
        /\ err[p] = "insert"
        /\ touched[p] = {n}
        /\ fs[n] = Concat(<<ChunkOf(p, 1), ChunkOf(p, 2)>>)
        /\ rows = <<>>

\* the position of the first part named "file" in body b, 0 if it has none
FirstFile(b) ==
    LET I == {i \in 1..Len(b) : b[i] = FileP}
    IN  IF I = {} THEN 0 ELSE CHOOSE i \in I : \A j \in I : i <= j

\* the parts of body b that precede its first "file" part (all its parts
\* when it has none), and those that follow it
Before(b) ==
    IF FirstFile(b) = 0 THEN SelectSeq(b, LAMBDA x : x # EndP)
    ELSE SubSeq(b, 1, FirstFile(b) - 1)
After(b) == SubSeq(b, FirstFile(b) + 1, Len(b))

\* the values the parts named k carry in a sequence of parts
ValuesOf(parts, k) == {parts[i].value : i \in {j \in 1..Len(parts) : parts[j].name = k}}

\* C13: the scalar map only ever holds parts that precede the first "file"
\* part; once the "file" part is seen the parts behind it stay unread; a
\* body whose parts before the "file" part carry no file_name creates no file
\* and no row, and fails as malformed at the "file" part, whatever follows
\* it; the record of an upload answered 200 takes its file_name and file_type
\* from values of parts that precede the "file" part (no file_type if none).
C13_FilePartEndsScalars ==
    \A p \in Tasks :
        sent[p] # <<>> =>
            /\ \A k \in DOMAIN fields[p] : fields[p][k] \in ValuesOf(Before(sent[p]), k)
            /\ field[p] = "file" =>
                   /\ FirstFile(sent[p]) > 0
                   /\ body[p] = After(sent[p])
            /\ (FirstFile(sent[p]) > 0 /\ ValuesOf(Before(sent[p]), "file_name") = {}) =>
                   /\ touched[p] = {}
                   /\ nrows[p] = 0
                   /\ field[p] = "file" => pc[p] = "done_err" /\ err[p] = "malformed"
            /\ p \in Uploaded =>
                   /\ Len(resp[p]) = 1
                   /\ resp[p][1] \in Range(rows)
                   /\ resp[p][1].file_name \in ValuesOf(Before(sent[p]), "file_name")
                   /\ touched[p] = {resp[p][1].file_name}
                   /\ IF ValuesOf(Before(sent[p]), "file_type") = {}
                      THEN resp[p][1].file_type = None
                      ELSE resp[p][1].file_type \in ValuesOf(Before(sent[p]), "file_type")

\* C13 witness: a body whose file_name arrives only behind the "file" part
\* has failed as malformed, the file_name part still unread
C13_Witness ==
    \E p \in Tasks :
        /\ field[p] = "file"
        /\ ValuesOf(Before(sent[p]), "file_name") = {}
        /\ ValuesOf(After(sent[p]), "file_name") # {}
        /\ body[p] = After(sent[p])
        /\ err[p] = "malformed"

C15_DateSetByServer ==
    /\ [](\A p \in Tasks :
            /\ (field[p] = "file" /\ "file_name" \in DOMAIN fields[p]) => err[p] # "malformed"
            /\ p \in Uploaded =>
                   /\ resp[p] = <<[file_name |-> req[p].file_name,
                                   file_type |-> req[p].file_type,
                                   file_upload_date |-> date[p]]>>
                   /\ resp[p][1] \in Range(rows)
                   /\ date[p] \in 1..now)
    /\ [][\A p \in Tasks :
            /\ (pc[p] = "writing" /\ pc'[p] = "insert") => date'[p] = now' /\ now' >= now
            /\ (pc[p] \in {"insert", "inserting"} /\ pc'[p] # "done_err") =>
                   date'[p] = date[p] /\ chunks'[p] = chunks[p]]_vars

\* C15 witness: an upload answered 200 whose client sent a file_upload_date
C15_Witness ==
    \E p \in Uploaded :
        /\ "file_upload_date" \in DOMAIN fields[p]
        /\ fields[p]["file_upload_date"] = "7"
        /\ Len(rows) >= 1

\* the parts of sent[p] the server has read so far
ReadSoFar(p) == SubSeq(sent[p], 1, Len(sent[p]) - Len(body[p]))

\* the value of the last part named k in a sequence of parts that has one
LastValue(parts, k) ==
    LET I == {i \in 1..Len(parts) : parts[i].name = k}
    IN  parts[CHOOSE i \in I : \A j \in I : j <= i].value

C17_DateIsClock ==
    \A p \in Tasks :
        (route[p] = PostAudio /\ pc[p] \in {"insert", "inserting", "done_ok"}) =>
            /\ date[p] = now
            /\ date[p] >= 0
            /\ pc[p] = "done_ok" => rows[Len(rows)].file_upload_date = now

\* the distinct names of the first n rows that satisfy the predicate of q on k
MatchingAt(q, k, n) ==
    {rows[i].file_name : i \in {j \in 1..n : Satisfies(rows[j], q, k)}}

\* what query q is answered on the table as it was when it held n rows
ResultAt(q, n) == {m \in FileNames : \A k \in DOMAIN q : m \in MatchingAt(q, k, n)}

C19_RecordedFileComplete ==
    (\A p \in Tasks : pc[p] \in {"idle", "done_ok", "done_err"}
                        /\ pending[p] = <<>> /\ ~werr[p]) =>
        \A i \in 1..Len(rows) :
            \E p \in Uploaded :
                /\ req[p].file_name = rows[i].file_name
                /\ fs[rows[i].file_name] = Concat(chunks[p])
====
